---- MODULE Spec2Model ----
(***************************************************************************)
(* AO3TagBot (src/main.py): a Telegram bot that answers messages holding   *)
(* AO3 story links with the tags of the linked story.                      *)
(*                                                                         *)
(* A Python str is a sequence of one-character strings, so that slicing,   *)
(* startswith, split, strip and len are computed on characters.  A Python  *)
(* value that may be None is the record None or Str(s).  A dict is a       *)
(* function whose domain is its set of keys.                               *)
(***************************************************************************)
EXTENDS Integers, Sequences, FiniteSets, TLC

VARIABLES
    pc,             \* position of message_reply: idle, start, loop, send, done, raised
    update,         \* the Update handed to message_reply: [message |-> None or Str(text)]
    urls,           \* main.py:194  the links found in the message
    i,              \* main.py:197  1-based index of the url of the for loop
    tag_info,       \* main.py:199  None, or Dict(d) for the record d
    message_texts,  \* main.py:201-208  the texts to send for urls[i]
    j,              \* main.py:210  1-based index of the next text to send
    fetched,        \* main.py:74   the requests.get calls so far: [url |-> url, got |-> outcome]
    sent            \* the send_message calls so far: [i |-> url index, text |-> text]

vars == <<pc, update, urls, i, tag_info, message_texts, j, fetched, sent>>

-----------------------------------------------------------------------------
(* Python values *)

None == [type |-> "NoneType"]
Str(s) == [type |-> "str", s |-> s]
Dict(d) == [type |-> "dict", d |-> d]

\* str(v) as an f-string field renders it
format(v) == IF v = None THEN <<"N","o","n","e">> ELSE v.s

startswith(s, prefix) ==
    /\ Len(s) >= Len(prefix)
    /\ SubSeq(s, 1, Len(prefix)) = prefix

\* str.isspace for one character (the ASCII whitespace)
isspace(c) == c \in {" ", "\t", "\n", "\r"}

Min(S) == CHOOSE x \in S : \A y \in S : x <= y

RECURSIVE sorted(_)
sorted(S) == IF S = {} THEN <<>> ELSE <<Min(S)>> \o sorted(S \ {Min(S)})

\* str.split(): the maximal runs of non-whitespace characters, in order
split(text) ==
    LET n == Len(text)
        first == sorted({k \in 1..n : ~isspace(text[k]) /\ (k = 1 \/ isspace(text[k-1]))})
        last == sorted({k \in 1..n : ~isspace(text[k]) /\ (k = n \/ isspace(text[k+1]))})
    IN  [w \in 1..Len(first) |-> SubSeq(text, first[w], last[w])]

\* str.strip(): without the leading and trailing whitespace
strip(s) ==
    LET keep == {k \in 1..Len(s) : ~isspace(s[k])}
    IN  IF keep = {} THEN <<>>
        ELSE SubSeq(s, Min(keep), CHOOSE x \in keep : \A y \in keep : y <= x)

Lower == <<"a","b","c","d","e","f","g","h","i","j","k","l","m","n","o","p","q","r","s","t","u","v","w","x","y","z">>
Upper == <<"A","B","C","D","E","F","G","H","I","J","K","L","M","N","O","P","Q","R","S","T","U","V","W","X","Y","Z">>
upper(c) == IF \E k \in 1..26 : Lower[k] = c THEN Upper[CHOOSE k \in 1..26 : Lower[k] = c] ELSE c
lower(c) == IF \E k \in 1..26 : Upper[k] = c THEN Lower[CHOOSE k \in 1..26 : Upper[k] = c] ELSE c

\* the string as it is, where capitalize was meant
capitalize_forgotten(s) == s

\* str.capitalize(): first character upper-cased, the rest lower-cased
capitalize(s) == [k \in 1..Len(s) |-> IF k = 1 THEN upper(s[k]) ELSE lower(s[k])]

RECURSIVE concat(_)
concat(ss) == IF ss = <<>> THEN <<>> ELSE Head(ss) \o concat(Tail(ss))

-----------------------------------------------------------------------------
(* main.py:17-27 *)

AO3_STORY_URL_STARTS == <<
    <<"h","t","t","p","s",":","/","/","a","r","c","h","i","v","e","o","f","o","u","r","o","w","n",".","o","r","g","/","w","o","r","k","s">>,
    <<"a","r","c","h","i","v","e","o","f","o","u","r","o","w","n",".","o","r","g","/","w","o","r","k","s">> >>

MAXIMUM_MESSAGE_LENGTH == 4096

\* the link as written, where the scheme was to be added
normalize_url_unchanged(url) == url

(* main.py:30-34 *)
normalize_url(url) ==
    IF ~startswith(url, <<"h","t","t","p","s",":","/","/">>) THEN <<"h","t","t","p","s",":","/","/">> \o url ELSE url

(* main.py:46-49: the inner loop over the recognized starts, from the k-th *)
RECURSIVE links_of_word(_, _)
links_of_word(word, k) ==
    IF k > Len(AO3_STORY_URL_STARTS) THEN <<>>
    ELSE IF startswith(word, AO3_STORY_URL_STARTS[k]) THEN <<normalize_url(word)>>
    ELSE links_of_word(word, k + 1)

(* main.py:37-52 *)
RECURSIVE links_of_words(_)
links_of_words(words) ==
    IF words = <<>> THEN <<>>
    ELSE links_of_word(Head(words), 1) \o links_of_words(Tail(words))

find_ao3_story_urls(text) == links_of_words(split(text))

-----------------------------------------------------------------------------
(* What a call does: it returns a value or raises an exception *)

Returned(v) == [raised |-> FALSE, value |-> v]
Raised(exc) == [raised |-> TRUE, exc |-> exc]

(* BeautifulSoup.  A parsed document is the table of what soup.find gives    *)
(* for each selector the program uses: None, or the first matching element    *)
(* Tag(string, a), where string is the element's .string (None when the       *)
(* element does not hold exactly one string) and a is the sequence of the     *)
(* .string of the <a> elements below it, in document order.                   *)

Tag(string, a) == [type |-> "Tag", string |-> string, a |-> a]

Selectors == {
    <<"h2", "title">>, <<"a", "author">>, <<"dd", "words">>, <<"dd", "chapters">>,
    <<"dd", "rating">>, <<"dd", "warning">>, <<"dd", "category">>, <<"dd", "fandom">>,
    <<"dd", "relationship">>, <<"dd", "characters">>, <<"dd", "freeform">> }

find(soup, name, attr) == soup[<<name, attr>>]

\* sep.join(items): a TypeError when an item is not a str
RECURSIVE joined(_, _)
joined(sep, items) ==
    IF items = <<>> THEN <<>>
    ELSE IF Len(items) = 1 THEN items[1].s
    ELSE items[1].s \o sep \o joined(sep, Tail(items))

join(sep, items) ==
    IF \E k \in 1..Len(items) : items[k] = None THEN Raised("TypeError")
    ELSE Returned(Str(joined(sep, items)))

(* main.py:55-59 *)
get_tag(soup, tag_class) ==
    LET tag_node == find(soup, "dd", tag_class)
    IN  IF tag_node = None THEN Returned(None) ELSE Returned(tag_node.string)

(* main.py:62-69 *)
get_tags_from_list(soup, tag_list_class) ==
    LET tag_list_node == find(soup, "dd", tag_list_class)
    IN  IF tag_list_node = None THEN Returned(None) ELSE join(<<","," ">>, tag_list_node.a)

(* the keys of tag_info *)
title == <<"t","i","t","l","e">>
author == <<"a","u","t","h","o","r">>
words == <<"w","o","r","d","s">>
chapters == <<"c","h","a","p","t","e","r","s">>
rating == <<"r","a","t","i","n","g">>
warnings == <<"w","a","r","n","i","n","g","s">>
categories == <<"c","a","t","e","g","o","r","i","e","s">>
fandoms == <<"f","a","n","d","o","m","s">>
relationships == <<"r","e","l","a","t","i","o","n","s","h","i","p","s">>
characters == <<"c","h","a","r","a","c","t","e","r","s">>
tags == <<"t","a","g","s">>

(* main.py:82-84: the assignment is skipped when there is no title element;   *)
(* .strip() of a None .string is an AttributeError                            *)
title_step(soup) ==
    LET title_node == find(soup, "h2", "title")
    IN  IF title_node = None THEN [key |-> title, assigns |-> FALSE, call |-> Returned(None)]
        ELSE [key |-> title, assigns |-> TRUE,
              call |-> IF title_node.string = None THEN Raised("AttributeError")
                       ELSE Returned(Str(strip(title_node.string.s)))]

(* main.py:85-87 *)
author_step(soup) ==
    LET author_node == find(soup, "a", "author")
    IN  IF author_node = None THEN [key |-> author, assigns |-> FALSE, call |-> Returned(None)]
        ELSE [key |-> author, assigns |-> TRUE, call |-> Returned(author_node.string)]

(* main.py:82-96: the statements that fill tag_info, in program order *)
tag_info_steps(soup) == <<
    title_step(soup),
    author_step(soup),
    [key |-> words, assigns |-> TRUE, call |-> get_tag(soup, "words")],
    [key |-> chapters, assigns |-> TRUE, call |-> get_tag(soup, "chapters")],
    [key |-> rating, assigns |-> TRUE, call |-> get_tags_from_list(soup, "rating")],
    [key |-> warnings, assigns |-> TRUE, call |-> get_tags_from_list(soup, "warning")],
    [key |-> categories, assigns |-> TRUE, call |-> get_tags_from_list(soup, "category")],
    [key |-> fandoms, assigns |-> TRUE, call |-> get_tags_from_list(soup, "fandom")],
    [key |-> relationships, assigns |-> TRUE, call |-> get_tags_from_list(soup, "relationship")],
    [key |-> characters, assigns |-> TRUE, call |-> get_tags_from_list(soup, "characters")],
    [key |-> tags, assigns |-> TRUE, call |-> get_tags_from_list(soup, "freeform")] >>

\* tag_info as filled, the None values kept
filter_nothing(d) == d

(* main.py:99: filter tags we failed to find out of tag_info *)
filter_tag_info(d) == [k \in {x \in DOMAIN d : d[x] # None} |-> d[k]]

\* only 404 taken for a missing story
not_ok_only_404(status_code) == status_code = 404

(* main.py:75 *)
not_ok(status_code) == status_code # 200

(* main.py:72-101, given what requests.get(url, timeout=REQUEST_TIMEOUT) did: *)
(* Raised(exc), or Returned([status_code, soup]) with soup the parsed text    *)
get_tags_for_story_url(url, got) ==
    IF got.raised THEN Raised(got.exc)
    ELSE IF not_ok(got.value.status_code) THEN Returned(None)
    ELSE LET steps == tag_info_steps(got.value.soup)
             failing == {n \in 1..Len(steps) : steps[n].call.raised}
             assigned == {n \in 1..Len(steps) : steps[n].assigns}
             filled == [k \in {steps[n].key : n \in assigned} |->
                          steps[CHOOSE n \in assigned : steps[n].key = k].call.value]
         IN  IF failing # {} THEN Raised(steps[Min(failing)].call.exc)
             ELSE Returned(Dict(filter_tag_info(filled)))

(* main.py:82-96: the key of each field and the selector of its element;     *)
(* list tells the fields read with get_tags_from_list                         *)
FieldTable == <<
    [key |-> title, selector |-> <<"h2", "title">>, list |-> FALSE],
    [key |-> author, selector |-> <<"a", "author">>, list |-> FALSE],
    [key |-> words, selector |-> <<"dd", "words">>, list |-> FALSE],
    [key |-> chapters, selector |-> <<"dd", "chapters">>, list |-> FALSE],
    [key |-> rating, selector |-> <<"dd", "rating">>, list |-> TRUE],
    [key |-> warnings, selector |-> <<"dd", "warning">>, list |-> TRUE],
    [key |-> categories, selector |-> <<"dd", "category">>, list |-> TRUE],
    [key |-> fandoms, selector |-> <<"dd", "fandom">>, list |-> TRUE],
    [key |-> relationships, selector |-> <<"dd", "relationship">>, list |-> TRUE],
    [key |-> characters, selector |-> <<"dd", "characters">>, list |-> TRUE],
    [key |-> tags, selector |-> <<"dd", "freeform">>, list |-> TRUE] >>

-----------------------------------------------------------------------------
(* main.py:115-125 *)
line_keys == <<words, chapters, rating, warnings, categories, fandoms,
               relationships, characters, tags>>

(* main.py:115-127: the loop over the keys, from the n-th *)
RECURSIVE key_lines(_, _)
key_lines(d, n) ==
    IF n > Len(line_keys) THEN <<>>
    ELSE (IF line_keys[n] \in DOMAIN d
          THEN <<"\n","<","b",">">> \o capitalize(line_keys[n]) \o <<":","<","/","b",">"," ">> \o format(d[line_keys[n]])
          ELSE <<>>) \o key_lines(d, n + 1)

\* the text of the other failure, where the locked one was meant
locked_message_confused(url) == <<"C","o","u","l","d"," ","n","o","t"," ","e","x","t","r","a","c","t"," ","t","a","g","s"," ","f","o","r"," ">> \o url \o <<";"," ","d","o","e","s"," ","t","h","e"," ","s","t","o","r","y"," ","e","x","i","s","t","?">>

(* main.py:129 *)
locked_message(url) == <<"C","o","u","l","d"," ","n","o","t"," ","e","x","t","r","a","c","t"," ","t","a","g","s"," ","f","o","r"," ">> \o url \o <<";"," ","i","s"," ","t","h","e"," ","s","t","o","r","y"," ","l","o","c","k","e","d","?">>

(* main.py:109-129: message_text before it is split *)
compose_message_text(url, d) ==
    LET head == IF title \in DOMAIN d
                THEN <<"\n","<","b",">">> \o format(d[title]) \o <<"<","/","b",">">>
                     \o (IF author \in DOMAIN d
                         THEN <<" ","b","y"," ","<","b",">">> \o format(d[author]) \o <<"<","/","b",">">> ELSE <<>>)
                     \o <<"\n">>
                ELSE <<>>
        message_text == head \o key_lines(d, 1)
    IN  IF message_text = <<>> THEN locked_message(url) ELSE message_text

\* slices one character short: message_text[i : i + MAXIMUM_MESSAGE_LENGTH - 1]
slices_one_short(message_text) ==
    LET n == Len(message_text)
        count == (n + MAXIMUM_MESSAGE_LENGTH - 1) \div MAXIMUM_MESSAGE_LENGTH
    IN  [c \in 1..count |->
            SubSeq(message_text, (c - 1) * MAXIMUM_MESSAGE_LENGTH + 1,
                   IF c * MAXIMUM_MESSAGE_LENGTH - 1 < n
                   THEN c * MAXIMUM_MESSAGE_LENGTH - 1 ELSE n)]

(* main.py:135-138: message_text[i : i + MAXIMUM_MESSAGE_LENGTH] for i in     *)
(* range(0, len(message_text), MAXIMUM_MESSAGE_LENGTH)                        *)
slices(message_text) ==
    LET n == Len(message_text)
        count == (n + MAXIMUM_MESSAGE_LENGTH - 1) \div MAXIMUM_MESSAGE_LENGTH
    IN  [c \in 1..count |->
            SubSeq(message_text, (c - 1) * MAXIMUM_MESSAGE_LENGTH + 1,
                   IF c * MAXIMUM_MESSAGE_LENGTH < n THEN c * MAXIMUM_MESSAGE_LENGTH ELSE n)]

(* main.py:104-138 *)
get_messages_for_story(url, d) == slices(compose_message_text(url, d))

-----------------------------------------------------------------------------
(* message_reply, main.py:185-218 *)

\* a local variable that no statement has assigned yet
Unbound == [type |-> "unbound"]

\* an except clause for the errors of requests only
catches_request_errors(exc) == exc \in {"ConnectionError", "Timeout"}

\* main.py:206: a bare except clause catches every exception
handler_catches(exc) == TRUE

(* main.py:198-208: the try statement for one url, given what requests.get    *)
(* did; tag_info keeps its value when the call raises before assigning it     *)
try_block(url, got, tag_info_before) ==
    LET call == get_tags_for_story_url(url, got)
    IN  IF call.raised
        THEN [propagates |-> ~handler_catches(call.exc),
              tag_info |-> tag_info_before,
              message_texts |-> << <<"I","n","t","e","r","n","a","l"," ","e","r","r","o","r"," ","w","h","i","l","e"," ","r","e","t","r","i","e","v","i","n","g"," ","t","a","g","s"," ","f","o","r"," ">> \o url >>]
        ELSE IF call.value = None
        THEN [propagates |-> FALSE,
              tag_info |-> None,
              message_texts |-> << <<"C","o","u","l","d"," ","n","o","t"," ","e","x","t","r","a","c","t"," ","t","a","g","s"," ","f","o","r"," ">> \o url
                                   \o <<";"," ","d","o","e","s"," ","t","h","e"," ","s","t","o","r","y"," ","e","x","i","s","t","?">> >>]
        ELSE [propagates |-> FALSE,
              tag_info |-> call.value,
              message_texts |-> get_messages_for_story(url, call.value.d)]

Init ==
    /\ pc = "idle"
    /\ update = [message |-> None]
    /\ urls = <<>>
    /\ i = 0
    /\ tag_info = Unbound
    /\ message_texts = <<>>
    /\ j = 0
    /\ fetched = <<>>
    /\ sent = <<>>

\* the dispatcher calls message_reply(update, context)
Receive(u) ==
    /\ pc = "idle"
    /\ pc' = "start"
    /\ update' = u
    /\ UNCHANGED <<urls, i, tag_info, message_texts, j, fetched, sent>>

\* main.py:186-196
Detect ==
    /\ pc = "start"
    /\ IF update.message = None
       THEN /\ pc' = "done"
            /\ UNCHANGED <<urls, i>>
       ELSE /\ urls' = find_ao3_story_urls(update.message.s)
            /\ IF urls' # <<>>
               THEN pc' = "loop" /\ i' = 1
               ELSE pc' = "done" /\ i' = i
    /\ UNCHANGED <<update, tag_info, message_texts, j, fetched, sent>>

\* main.py:197-208: one pass through the try statement, for urls[i]
TryBlock(got) ==
    /\ pc = "loop"
    /\ LET try == try_block(urls[i], got, tag_info)
       IN  /\ pc' = IF try.propagates THEN "raised" ELSE "send"
           /\ tag_info' = try.tag_info
           /\ message_texts' = IF try.propagates THEN message_texts ELSE try.message_texts
    /\ fetched' = Append(fetched, [url |-> urls[i], got |-> got])
    /\ j' = 1
    /\ UNCHANGED <<update, urls, i, sent>>

\* main.py:210-218: one send_message call
Send ==
    /\ pc = "send"
    /\ j <= Len(message_texts)
    /\ sent' = Append(sent, [i |-> i, text |-> message_texts[j]])
    /\ j' = j + 1
    /\ UNCHANGED <<pc, update, urls, i, tag_info, message_texts, fetched>>

\* the outer loop moving on after the first text of a reply
NextUrl_after_first_text ==
    /\ pc = "send"
    /\ j > 1
    /\ i' = i + 1
    /\ pc' = IF i + 1 <= Len(urls) THEN "loop" ELSE "done"
    /\ UNCHANGED <<update, urls, tag_info, message_texts, j, fetched, sent>>

\* main.py:210, 197: the inner loop is exhausted; the outer loop moves on or ends
NextUrl ==
    /\ pc = "send"
    /\ j > Len(message_texts)
    /\ i' = i + 1
    /\ pc' = IF i + 1 <= Len(urls) THEN "loop" ELSE "done"
    /\ UNCHANGED <<update, urls, tag_info, message_texts, j, fetched, sent>>

\* message_reply returns; nothing of the call outlives it
Return ==
    /\ pc = "done"
    /\ pc' = "idle"
    /\ update' = [message |-> None]
    /\ urls' = <<>>
    /\ i' = 0
    /\ tag_info' = Unbound
    /\ message_texts' = <<>>
    /\ j' = 0
    /\ fetched' = <<>>
    /\ sent' = <<>>

-----------------------------------------------------------------------------
(* Inputs *)

MaxPieces == 3
MaxLinks == 2
MaxAnchors == 2
UrlPadLen == 4064
TailLen == 808

Pad(c, n) == [k \in 1..n |-> c]

ShortLink == <<"a","r","c","h","i","v","e","o","f","o","u","r","o","w","n",".","o","r","g","/","w","o","r","k","s","/","1","2","3","4","5">>
SchemeLink == <<"h","t","t","p","s",":","/","/","a","r","c","h","i","v","e","o","f","o","u","r","o","w","n",".","o","r","g","/","w","o","r","k","s","/","6","7","8","/","c","h","a","p","t","e","r","s","/","9">>
LongLink == <<"a","r","c","h","i","v","e","o","f","o","u","r","o","w","n",".","o","r","g","/","w","o","r","k","s","/">> \o Pad("1", UrlPadLen)

\* the pieces a message text is made of: links, near misses, words, whitespace
Pieces == {
    ShortLink, SchemeLink,
    <<"h","t","t","p",":","/","/","a","r","c","h","i","v","e","o","f","o","u","r","o","w","n",".","o","r","g","/","w","o","r","k","s","/","3">>, <<"a","r","c","h","i","v","e","o","f","o","u","r","o","w","n",".","o","r","g","/","w","o","r","k">>,
    <<"c","h","e","c","k"," ","t","h","i","s"," ","o","u","t"," ">>, <<" ">>, <<"\n","\t">> }

RECURSIVE texts_of(_, _)
texts_of(pieces, n) ==
    IF n = 0 THEN {<<>>}
    ELSE LET shorter == texts_of(pieces, n - 1)
         IN  shorter \cup {t \o p : t \in shorter, p \in pieces}

DetectorTexts == texts_of(Pieces, MaxPieces)

RECURSIVE spaced(_, _)
spaced(tokens, n) ==
    IF n = 0 THEN {<<>>}
    ELSE LET shorter == spaced(tokens, n - 1)
         IN  shorter \cup {IF t = <<>> THEN w ELSE t \o <<" ">> \o w : t \in shorter, w \in tokens}

InboundTexts == spaced({ShortLink, LongLink, <<"s","e","e">>}, MaxLinks)

\* documents
Typical == [s \in Selectors |->
    CASE s = <<"h2", "title">> -> Tag(Str(<<"\n"," "," ","F","o","o","\n">>), <<>>)
      [] s = <<"a", "author">> -> Tag(Str(<<"A","n","n">>), <<>>)
      [] s = <<"dd", "words">> -> Tag(Str(<<"1",",","2","3","4">>), <<>>)
      [] s = <<"dd", "chapters">> -> Tag(Str(<<"2","/","?">>), <<>>)
      [] s = <<"dd", "fandom">> -> Tag(None, <<Str(<<"B","a","r">>)>>)
      [] OTHER -> Tag(None, <<Str(<<"B","a","z">>), Str(<<"Q","u","x">>)>>)]

Only(present) == [s \in Selectors |-> IF s \in present THEN Typical[s] ELSE None]
EmptyDocument == Only({})
TitleFandomDocument == Only({<<"h2", "title">>, <<"dd", "fandom">>})
NestedTitleDocument ==
    [TitleFandomDocument EXCEPT ![<<"h2", "title">>] = Tag(None, <<>>)]

Strings == {None, Str(<<>>), Str(<<"B","a","r">>), Str(<<" ","x"," ">>)}

RECURSIVE anchors(_)
anchors(n) ==
    IF n = 0 THEN {<<>>}
    ELSE LET shorter == anchors(n - 1)
         IN  shorter \cup {Append(a, x) : a \in shorter, x \in {None, Str(<<"B","a","r">>), Str(<<"Q","u","x">>)}}

Elements == {None} \cup {Tag(x, <<>>) : x \in Strings}
                   \cup {Tag(None, a) : a \in anchors(MaxAnchors)}

\* a document whose message text is n characters: one Tags line
TagsDocument(n) ==
    [EmptyDocument EXCEPT ![<<"dd", "freeform">>] =
        Tag(None, <<Str(Pad("x", n - Len(<<"\n","<","b",">","T","a","g","s",":","<","/","b",">"," ">>)))>>)]

Documents ==
    {Only(present) : present \in SUBSET Selectors}
    \cup {[base EXCEPT ![s] = e] :
            base \in {EmptyDocument, TitleFandomDocument, Typical},
            s \in Selectors, e \in Elements}
    \cup {TagsDocument(n) : n \in {MAXIMUM_MESSAGE_LENGTH - 1, MAXIMUM_MESSAGE_LENGTH,
                                   MAXIMUM_MESSAGE_LENGTH + 1, 2 * MAXIMUM_MESSAGE_LENGTH,
                                   2 * MAXIMUM_MESSAGE_LENGTH + TailLen}}

HttpResponse(status_code, soup) == Returned([status_code |-> status_code, soup |-> soup])

StoryResponses ==
    {Raised("ConnectionError"), Raised("Timeout")}
    \cup {HttpResponse(200, soup) : soup \in Documents}
    \cup {HttpResponse(status_code, soup) :
            status_code \in {204, 301, 403, 404, 500},
            soup \in {EmptyDocument, TitleFandomDocument}}

HandlerResponses == {
    Raised("ConnectionError"),
    HttpResponse(404, TitleFandomDocument),
    HttpResponse(200, EmptyDocument),
    HttpResponse(200, TitleFandomDocument),
    HttpResponse(200, NestedTitleDocument) }

-----------------------------------------------------------------------------
(* Specifications *)

\* the bot: updates with and without a message, every url answered in turn
MessageReceived ==
    \E u \in {[message |-> None]} \cup {[message |-> Str(t)] : t \in InboundTexts} :
        Receive(u)

Fetch == \E got \in HandlerResponses : TryBlock(got)

Next == MessageReceived \/ Detect \/ Fetch \/ Send \/ NextUrl \/ Return

Spec == Init /\ [][Next]_vars

\* the detector alone: message_reply up to the list of urls
DetectorInit ==
    /\ pc = "start"
    /\ update \in {[message |-> Str(t)] : t \in DetectorTexts}
    /\ urls = <<>>
    /\ i = 0
    /\ tag_info = Unbound
    /\ message_texts = <<>>
    /\ j = 0
    /\ fetched = <<>>
    /\ sent = <<>>

DetectorNext == Detect

SpecDetector == DetectorInit /\ [][DetectorNext]_vars

\* one story: message_reply from the for loop on, for a message that is one link
StoryInit ==
    /\ pc = "loop"
    /\ \E link \in {ShortLink, SchemeLink, LongLink} :
          /\ update = [message |-> Str(link)]
          /\ urls = find_ao3_story_urls(link)
    /\ i = 1
    /\ tag_info = Unbound
    /\ message_texts = <<>>
    /\ j = 0
    /\ fetched = <<>>
    /\ sent = <<>>

StoryFetch == \E got \in StoryResponses : TryBlock(got)

StoryNext == StoryFetch \/ Send \/ NextUrl

SpecStory == StoryInit /\ [][StoryNext]_vars

-----------------------------------------------------------------------------
(* Properties *)

\* sub occurs in s, at one of the places where its first character does
occurrences(s, sub) ==
    {k \in 1..(Len(s) - Len(sub) + 1) : s[k] = sub[1] /\ SubSeq(s, k, k + Len(sub) - 1) = sub}

contains(s, sub) == occurrences(s, sub) # {}

range(seq) == {seq[n] : n \in 1..Len(seq)}

recognized(word) ==
    \/ startswith(word, <<"h","t","t","p","s",":","/","/","a","r","c","h","i","v","e","o","f","o","u","r","o","w","n",".","o","r","g","/","w","o","r","k","s">>)
    \/ startswith(word, <<"a","r","c","h","i","v","e","o","f","o","u","r","o","w","n",".","o","r","g","/","w","o","r","k","s">>)

texts_sent == [n \in 1..Len(sent) |-> sent[n].text]

\* C1: the urls found in a text are exactly its whitespace-separated tokens
\* that start with a recognized prefix, in order of appearance and with
\* repetitions, each with https:// in front when it did not have it; so every
\* url starts with https:// and contains archiveofourown.org/works, and no
\* other token is among them.  An empty text gives no url, and the text
\* "check this out archiveofourown.org/works/12345" gives that one link.
C1_DetectorExact ==
    (pc \in {"loop", "done"} /\ update.message # None) =>
        LET tokens == split(update.message.s)
            hits == SelectSeq(tokens, recognized)
        IN  /\ Len(urls) = Len(hits)
            /\ \A n \in 1..Len(urls) :
                  /\ urls[n] = IF SubSeq(hits[n], 1, 8) = <<"h","t","t","p","s",":","/","/">>
                              THEN hits[n] ELSE <<"h","t","t","p","s",":","/","/">> \o hits[n]
                  /\ startswith(urls[n], <<"h","t","t","p","s",":","/","/">>)
                  /\ contains(urls[n], <<"a","r","c","h","i","v","e","o","f","o","u","r","o","w","n",".","o","r","g","/","w","o","r","k","s">>)
            /\ \A t \in range(tokens) : ~recognized(t) => t \notin range(urls)
            /\ update.message.s = <<>> => urls = <<>>
            /\ update.message.s = <<"c","h","e","c","k"," ","t","h","i","s"," ","o","u","t"," ","a","r","c","h","i","v","e","o","f","o","u","r","o","w","n",".","o","r","g","/","w","o","r","k","s","/","1","2","3","4","5">>
                  => urls = << <<"h","t","t","p","s",":","/","/","a","r","c","h","i","v","e","o","f","o","u","r","o","w","n",".","o","r","g","/","w","o","r","k","s","/","1","2","3","4","5">> >>

\* C1 witness: a text that holds the same link twice has been scanned and the
\* link is there twice, scheme added
C1_Witness ==
    /\ pc = "loop"
    /\ update.message.s = ShortLink \o <<" ">> \o ShortLink
    /\ urls = << <<"h","t","t","p","s",":","/","/","a","r","c","h","i","v","e","o","f","o","u","r","o","w","n",".","o","r","g","/","w","o","r","k","s","/","1","2","3","4","5">>,
                 <<"h","t","t","p","s",":","/","/","a","r","c","h","i","v","e","o","f","o","u","r","o","w","n",".","o","r","g","/","w","o","r","k","s","/","1","2","3","4","5">> >>

\* C2: the texts get_messages_for_story returns are the consecutive slices of
\* the composed text: joined in order they are that text, there is at least
\* one, none is longer than MAXIMUM_MESSAGE_LENGTH and all but the last are
\* exactly that long; a text of two full slices and TailLen more gives three
\* texts, the last of TailLen characters.
C2_SlicesRebuildText ==
    (pc = "send" /\ j = 1 /\ tag_info.type = "dict" /\ ~fetched[i].got.raised) =>
        LET message_text == compose_message_text(urls[i], tag_info.d)
            count == Len(message_texts)
        IN  /\ concat(message_texts) = message_text
            /\ count >= 1
            /\ \A c \in 1..count : Len(message_texts[c]) <= MAXIMUM_MESSAGE_LENGTH
            /\ \A c \in 1..(count - 1) : Len(message_texts[c]) = MAXIMUM_MESSAGE_LENGTH
            /\ Len(message_text) = 2 * MAXIMUM_MESSAGE_LENGTH + TailLen
                  => (count = 3 /\ Len(message_texts[3]) = TailLen)

\* C2 witness: a record whose text needs three slices has been formatted
C2_Witness ==
    /\ pc = "send"
    /\ tag_info.type = "dict"
    /\ Len(message_texts) = 3
    /\ Len(message_texts[3]) = TailLen

\* C7: a record that get_tags_for_story_url returns has no key for a field
\* whose element is not in the document, and no key of it maps to None: every
\* value is a str.
C7_AbsentFieldsHaveNoKey ==
    (pc = "send" /\ tag_info.type = "dict" /\ ~fetched[i].got.raised) =>
        LET soup == fetched[i].got.value.soup
            d == tag_info.d
        IN  /\ \A n \in 1..Len(FieldTable) :
                  soup[FieldTable[n].selector] = None => FieldTable[n].key \notin DOMAIN d
            /\ \A k \in DOMAIN d : d[k] # None /\ d[k].type = "str"

\* C7 witness: a document with only a title and a fandom has been extracted
\* into a record with exactly those two keys
C7_Witness ==
    /\ pc = "send"
    /\ fetched[i].got = HttpResponse(200, TitleFandomDocument)
    /\ tag_info.type = "dict"
    /\ DOMAIN tag_info.d = {title, fandoms}

\* C8: for an empty record the texts returned are the slices of "Could not
\* extract tags for {url}; is the story locked?": that one text when it fits
\* in MAXIMUM_MESSAGE_LENGTH, and otherwise its slices in order.
C8_EmptyRecordIsLocked ==
    (pc = "send" /\ j = 1 /\ tag_info = Dict(<<>>) /\ ~fetched[i].got.raised) =>
        LET locked == <<"C","o","u","l","d"," ","n","o","t"," ","e","x","t","r","a","c","t"," ","t","a","g","s"," ","f","o","r"," ">> \o urls[i] \o <<";"," ","i","s"," ","t","h","e"," ","s","t","o","r","y"," ","l","o","c","k","e","d","?">>
        IN  /\ concat(message_texts) = locked
            /\ Len(locked) <= MAXIMUM_MESSAGE_LENGTH => message_texts = <<locked>>
            /\ \A c \in 1..Len(message_texts) :
                  /\ message_texts[c] # <<>>
                  /\ Len(message_texts[c]) <= MAXIMUM_MESSAGE_LENGTH

\* C8 witness: an empty record has been formatted for a short url
C8_Witness ==
    /\ pc = "send"
    /\ tag_info = Dict(<<>>)
    /\ urls = << <<"h","t","t","p","s",":","/","/","a","r","c","h","i","v","e","o","f","o","u","r","o","w","n",".","o","r","g","/","w","o","r","k","s","/","1","2","3","4","5">> >>
    /\ Len(message_texts) = 1

\* C5: when the fetch completes with a status outside 200..299, the body is
\* not parsed (tag_info is None whatever the document holds) and the reply
\* for the url is the one text "Could not extract tags for {url}; does the
\* story exist?".
C5_NonSuccessIsNotFound ==
    (pc \in {"send", "done"} /\ ~fetched[1].got.raised
        /\ fetched[1].got.value.status_code \notin 200..299) =>
        LET not_found == <<"C","o","u","l","d"," ","n","o","t"," ","e","x","t","r","a","c","t"," ","t","a","g","s"," ","f","o","r"," ">> \o urls[1] \o <<";"," ","d","o","e","s"," ","t","h","e"," ","s","t","o","r","y"," ","e","x","i","s","t","?">>
        IN  /\ tag_info = None
            /\ message_texts = <<not_found>>
            /\ pc = "done" => texts_sent = <<not_found>>

\* C5 witness: a 404 whose body holds a title and a fandom has been answered
C5_Witness ==
    /\ pc = "done"
    /\ fetched[1].got = HttpResponse(404, TitleFandomDocument)
    /\ Len(sent) = 1

\* the element of a field is in the document and its text can be read
well_formed(soup, field) ==
    /\ soup[field.selector] # None
    /\ IF field.list
       THEN \A n \in 1..Len(soup[field.selector].a) : soup[field.selector].a[n] # None
       ELSE soup[field.selector].string # None

\* C6: for a document fetched with status 200, extraction returns a record,
\* and the record has the key of every field whose element is in the document
\* and well formed, whatever the other elements are like.
C6_FieldsAreIsolated ==
    (pc = "send" /\ ~fetched[i].got.raised /\ fetched[i].got.value.status_code = 200) =>
        /\ tag_info.type = "dict"
        /\ \A n \in 1..Len(FieldTable) :
              well_formed(fetched[i].got.value.soup, FieldTable[n])
                  => FieldTable[n].key \in DOMAIN tag_info.d

\* the place of the first occurrence of sub in s
place(s, sub) == Min(occurrences(s, sub))

\* the fixed order of the keys after the title block
FixedOrder == <<words, chapters, rating, warnings, categories, fandoms,
                relationships, characters, tags>>

\* the start of the line of a key, as the chat shows it
Labels == [k \in range(FixedOrder) |->
    CASE k = words -> <<"\n","<","b",">","W","o","r","d","s",":","<","/","b",">"," ">>
      [] k = chapters -> <<"\n","<","b",">","C","h","a","p","t","e","r","s",":","<","/","b",">"," ">>
      [] k = rating -> <<"\n","<","b",">","R","a","t","i","n","g",":","<","/","b",">"," ">>
      [] k = warnings -> <<"\n","<","b",">","W","a","r","n","i","n","g","s",":","<","/","b",">"," ">>
      [] k = categories -> <<"\n","<","b",">","C","a","t","e","g","o","r","i","e","s",":","<","/","b",">"," ">>
      [] k = fandoms -> <<"\n","<","b",">","F","a","n","d","o","m","s",":","<","/","b",">"," ">>
      [] k = relationships -> <<"\n","<","b",">","R","e","l","a","t","i","o","n","s","h","i","p","s",":","<","/","b",">"," ">>
      [] k = characters -> <<"\n","<","b",">","C","h","a","r","a","c","t","e","r","s",":","<","/","b",">"," ">>
      [] k = tags -> <<"\n","<","b",">","T","a","g","s",":","<","/","b",">"," ">>]

RECURSIVE sum(_)
sum(ns) == IF ns = <<>> THEN 0 ELSE Head(ns) + sum(Tail(ns))

\* the title block of record d begins text
title_rendered(text, d) == startswith(text, <<"\n","<","b",">">> \o d[title].s \o <<"<","/","b",">">>)

\* the title block carries the author of record d
author_rendered(text, d) ==
    startswith(text, <<"\n","<","b",">">> \o d[title].s \o <<"<","/","b",">"," ","b","y"," ","<","b",">">> \o d[author].s \o <<"<","/","b",">","\n">>)

\* the lines of the keys: a present key has its line with its value, an absent
\* key has none, and the lines come in the fixed order
lines_rendered(text, d) ==
    /\ \A k \in range(FixedOrder) :
          IF k \in DOMAIN d THEN contains(text, Labels[k] \o d[k].s)
          ELSE ~contains(text, Labels[k])
    /\ \A m, n \in 1..Len(FixedOrder) :
          (m < n /\ FixedOrder[m] \in DOMAIN d /\ FixedOrder[n] \in DOMAIN d)
              => place(text, Labels[FixedOrder[m]]) < place(text, Labels[FixedOrder[n]])

\* the length of the blocks of record d, the author counted when with_author
blocks_length(d, with_author) ==
    (IF title \in DOMAIN d THEN Len(<<"\n","<","b",">">>) + Len(d[title].s) + Len(<<"<","/","b",">","\n">>) ELSE 0)
    + (IF with_author THEN Len(<<" ","b","y"," ","<","b",">">>) + Len(d[author].s) + Len(<<"<","/","b",">">>) ELSE 0)
    + sum([n \in 1..Len(FixedOrder) |->
              IF FixedOrder[n] \in DOMAIN d
              THEN Len(Labels[FixedOrder[n]]) + Len(d[FixedOrder[n]].s) ELSE 0])

\* the record of the state that has just been formatted, and its text
formatted == pc = "send" /\ j = 1 /\ tag_info.type = "dict" /\ ~fetched[i].got.raised

\* C9 as claimed: the text is made of the blocks of exactly the fields of the
\* record: the title block first, with the author whenever the record has
\* one, then the lines of the present keys in the fixed order, and nothing else.
C9_EveryPresentFieldRendered ==
    formatted =>
        LET d == tag_info.d
            text == concat(message_texts)
        IN  /\ title \in DOMAIN d => title_rendered(text, d)
            /\ author \in DOMAIN d => (title \in DOMAIN d /\ author_rendered(text, d))
            /\ lines_rendered(text, d)
            /\ d # <<>> => Len(text) = blocks_length(d, author \in DOMAIN d)

\* C9 amended: the text is made of the title block when the record has a
\* title, with the author only when the record has a title and an author, then
\* the lines of the present keys in the fixed order, and nothing else; the
\* author of a record without title is not rendered, and a record of which
\* nothing is rendered gives the "is the story locked?" text.
C9_FieldsRenderedAuthorWithTitle ==
    formatted =>
        LET d == tag_info.d
            text == concat(message_texts)
            with_author == title \in DOMAIN d /\ author \in DOMAIN d
            length == blocks_length(d, with_author)
        IN  IF length = 0
            THEN /\ DOMAIN d \subseteq {author}
                 /\ text = <<"C","o","u","l","d"," ","n","o","t"," ","e","x","t","r","a","c","t"," ","t","a","g","s"," ","f","o","r"," ">> \o urls[i] \o <<";"," ","i","s"," ","t","h","e"," ","s","t","o","r","y"," ","l","o","c","k","e","d","?">>
            ELSE /\ title \in DOMAIN d => title_rendered(text, d)
                 /\ with_author => author_rendered(text, d)
                 /\ ~with_author => ~contains(text, <<" ","b","y"," ","<","b",">">>)
                 /\ title \notin DOMAIN d => ~contains(text, <<"<","/","b",">","\n">>)
                 /\ lines_rendered(text, d)
                 /\ Len(text) = length

\* C9 witness: the record with title Foo and fandoms Bar has been formatted
\* into the title block and the Fandoms line
C9_Witness ==
    /\ formatted
    /\ tag_info.d = [k \in {title, fandoms} |-> IF k = title THEN Str(<<"F","o","o">>) ELSE Str(<<"B","a","r">>)]
    /\ message_texts = << <<"\n","<","b",">","F","o","o","<","/","b",">","\n","\n","<","b",">","F","a","n","d","o","m","s",":","<","/","b",">"," ","B","a","r">> >>

\* C3: every text handed to send_message is at most MAXIMUM_MESSAGE_LENGTH
\* characters long, whatever the url and whatever the fetch did.
C3_SentTextsAreChunks ==
    \A n \in 1..Len(sent) : Len(sent[n].text) <= MAXIMUM_MESSAGE_LENGTH

\* the texts sent for the n-th url
sent_for(n) == SelectSeq(sent, LAMBDA call : call.i = n)

\* fetching or parsing the n-th url raised
fetch_raised(n) == get_tags_for_story_url(fetched[n].url, fetched[n].got).raised

\* C4: an exception raised while fetching or parsing a url never leaves
\* message_reply: the url is answered with the one text "Internal error while
\* retrieving tags for {url}", and when message_reply returns every url of the
\* message has been fetched and answered.
C4_FailureIsContained ==
    /\ pc # "raised"
    /\ \A n \in 1..Len(fetched) :
          (fetch_raised(n) /\ (n < i \/ pc = "done")) =>
              /\ Len(sent_for(n)) = 1
              /\ sent_for(n)[1].text = <<"I","n","t","e","r","n","a","l"," ","e","r","r","o","r"," ","w","h","i","l","e"," ","r","e","t","r","i","e","v","i","n","g"," ","t","a","g","s"," ","f","o","r"," ">> \o urls[n]
    /\ pc = "done" =>
          /\ Len(fetched) = Len(urls)
          /\ \A n \in 1..Len(urls) : fetched[n].url = urls[n] /\ sent_for(n) # <<>>

\* C4 witness: the first of two urls failed while parsing, and the second was
\* fetched and answered with its tags
C4_Witness ==
    /\ pc = "done"
    /\ Len(urls) = 2
    /\ fetched[1].got = HttpResponse(200, NestedTitleDocument)
    /\ fetched[2].got = HttpResponse(200, TitleFandomDocument)
    /\ Len(sent) = 2
    /\ sent[2].text = <<"\n","<","b",">","F","o","o","<","/","b",">","\n","\n","<","b",">","F","a","n","d","o","m","s",":","<","/","b",">"," ","B","a","r">>

\* the texts of the reply for the n-th url
reply(n) == try_block(fetched[n].url, fetched[n].got, Unbound).message_texts

\* the replies for the first n urls, one after the other
RECURSIVE replies(_)
replies(n) == IF n = 0 THEN <<>> ELSE replies(n - 1) \o reply(n)

\* C10: the urls are fetched once each, in the order found, and the texts sent
\* are the replies in that order: when the n-th url is about to be fetched the
\* texts sent are the whole replies for the urls before it, while its reply is
\* being sent they are followed by the part of that reply sent so far, in
\* order, and a message without url sends nothing.
C10_Sequential ==
    /\ Len(fetched) <= Len(urls)
    /\ \A n \in 1..Len(fetched) : fetched[n].url = urls[n]
    /\ pc = "loop" => (Len(fetched) = i - 1 /\ texts_sent = replies(i - 1))
    /\ pc = "send" =>
          /\ Len(fetched) = i
          /\ message_texts = reply(i)
          /\ texts_sent = replies(i - 1) \o SubSeq(message_texts, 1, j - 1)
    /\ pc = "done" => (Len(fetched) = Len(urls) /\ texts_sent = replies(Len(urls)))
    /\ urls = <<>> => (sent = <<>> /\ fetched = <<>>)

\* C10 witness: a message with two urls has been answered, the first reply in
\* two texts and the second in one
C10_Witness ==
    /\ pc = "done"
    /\ Len(urls) = 2
    /\ Len(reply(1)) = 2
    /\ Len(sent) = 3
    /\ sent[3].i = 2

====
